---------------------------- MODULE Spec2Model ----------------------------
(***************************************************************************)
(* Circle-packing hierarchy plugin: level parsing, hierarchy building,     *)
(* value aggregation at layout time and label collision avoidance.         *)
(*                                                                         *)
(* JavaScript strings are modelled as sequences of one-character strings,  *)
(* so that regular-expression matching, trimming and joining are computed  *)
(* character by character.  null/undefined is the value NULL.              *)
(***************************************************************************)
EXTENDS Integers, Sequences, FiniteSets, TLC

VARIABLES
  \* ---- parseLevel (utils/dataTransform.ts)
  levelString,      \* the argument of parseLevel
  parsed,           \* its result: <<>> for null, <<ParsedLevel>> otherwise
  \* ---- App.hierarchyData / transformToHierarchy
  sigmaData,        \* the rows of cells delivered by the host, a sequence
  rows,             \* SigmaDataRow[] built by App
  beblFullNameMap,  \* Map<pathKey, beblFullName> built by App
  nodeMap,          \* Map<pathKey, HierarchyNode> of transformToHierarchy
  pc,               \* position of the running specification
  rowIndex,         \* number of rows already consumed by rows.forEach
  \* ---- CirclePacking
  focusedPath,      \* prop focusedPath
  packValue,        \* node.value of every node of d3.hierarchy(focusedNode).sum()
  nodes,            \* root.descendants() with x, y, r, depth (laid-out nodes)
  labelsToShow,     \* indices into nodes, in the order labels are pushed
  displayNames,     \* the text set on each label of labelsToShow
  packChildren,     \* children of every node of the hierarchy after sort()
  \* ---- App view state
  breadcrumbs,      \* state breadcrumbs: the path keys of the trail's nodes
  searchableNodes,  \* SearchResult[]: flattenHierarchy(hierarchyData)
  \* ---- SearchFilter
  searchTerm,       \* state searchTerm
  results,          \* state results
  isOpen,           \* state isOpen
  selectedIndex,    \* state selectedIndex
  timers,           \* the pending timeouts of the search effect, each
                    \* with the searchTerm and searchableNodes it closes over
  lastInput         \* what the user did last to the search text: "none",
                    \* "typed", "selected" or "cleared"

parseVars == <<levelString, parsed>>
buildVars == <<sigmaData, rows, beblFullNameMap, nodeMap, rowIndex>>
packVars  == <<focusedPath, packValue, packChildren, breadcrumbs>>
labelVars == <<nodes, labelsToShow, displayNames>>
searchVars == <<searchableNodes, searchTerm, results, isOpen, selectedIndex,
                timers, lastInput>>
vars == <<levelString, parsed, sigmaData, rows, beblFullNameMap, nodeMap, pc,
          rowIndex, focusedPath, packValue, nodes, labelsToShow, displayNames,
          packChildren, breadcrumbs, searchableNodes, searchTerm, results,
          isOpen, selectedIndex, timers, lastInput>>

(***************************************************************************)
(* Values                                                                  *)
(***************************************************************************)
NULL == <<"<null>">>      \* a null / undefined string cell

\* !x for a string-or-null cell: null, undefined and "" are falsy
Falsy(x) == x = NULL \/ x = <<>>

(***************************************************************************)
(* Character classes of the regular expression and of String.trim          *)
(***************************************************************************)
UpperOrDigit ==
  {"A","B","C","D","E","F","G","H","I","J","K","L","M","N","O","P","Q","R",
   "S","T","U","V","W","X","Y","Z","0","1","2","3","4","5","6","7","8","9"}
LineTerminator == {"\n", "\r"}
WhiteSpace == {" ", "\t", "\n", "\r", "\f"}

SubStr(s, a, b) == [k \in 1..(b - a + 1) |-> s[a + k - 1]]

RECURSIVE TrimStart(_)
TrimStart(s) ==
  IF s # <<>> /\ Head(s) \in WhiteSpace THEN TrimStart(Tail(s)) ELSE s

RECURSIVE TrimEnd(_)
TrimEnd(s) ==
  IF s # <<>> /\ s[Len(s)] \in WhiteSpace
    THEN TrimEnd(SubStr(s, 1, Len(s) - 1)) ELSE s

\* String.prototype.trim
Trim(s) == TrimEnd(TrimStart(s))


Min(S) == CHOOSE x \in S : \A y \in S : x <= y

(***************************************************************************)
(* parseLevel: /^(.+?)\s*\(([^)]+)\)-([A-Z0-9]+)$/                         *)
(***************************************************************************)
\* \s* is greedy: the first position at or after p that holds no white space
RECURSIVE SkipSpace(_, _)
SkipSpace(s, p) ==
  IF p <= Len(s) /\ s[p] \in WhiteSpace THEN SkipSpace(s, p + 1) ELSE p

\* [^)]+ is greedy and must be followed by ")": it ends before the first ")"
RECURSIVE FirstClose(_, _)
FirstClose(s, p) ==
  IF p > Len(s) THEN 0
  ELSE IF s[p] = ")" THEN p ELSE FirstClose(s, p + 1)

\* \(([^)]+)\)-([A-Z0-9]+)$ with "(" at position p
TailMatch(s, p) ==
  /\ p <= Len(s)
  /\ s[p] = "("
  /\ LET j == FirstClose(s, p + 1) IN
       /\ j > p + 1
       /\ j + 2 <= Len(s)
       /\ s[j + 1] = "-"
       /\ \A k \in (j + 2)..Len(s) : s[k] \in UpperOrDigit

\* (.+?) is lazy: group 1 is s[1..i] for the least i that lets the rest match;
\* "." matches no line terminator
RECURSIVE LazyMatch(_, _)
LazyMatch(s, i) ==
  IF i > Len(s) \/ s[i] \in LineTerminator THEN 0
  ELSE IF TailMatch(s, SkipSpace(s, i + 1)) THEN i
  ELSE LazyMatch(s, i + 1)

\* levelString.match(...): <<>> for no match, else <<m[1], m[2], m[3]>>
RegexMatch(s) ==
  LET i == LazyMatch(s, 1) IN
  IF i = 0 THEN <<>>
  ELSE LET p == SkipSpace(s, i + 1)
           j == FirstClose(s, p + 1)
       IN <<SubStr(s, 1, i), SubStr(s, p + 1, j - 1), SubStr(s, j + 2, Len(s))>>

\* parseLevel without the trim() of the matched groups
ParseLevel_NoTrim(str) ==
  IF Falsy(str) THEN <<>>
  ELSE LET match == RegexMatch(str) IN
       IF match = <<>>
         THEN <<[name |-> Trim(str), buCode |-> <<>>, beblCode |-> <<>>,
                 raw |-> str]>>
         ELSE <<[name |-> match[1], buCode |-> match[2],
                 beblCode |-> match[3], raw |-> str]>>

\* parseLevel whose fallback keeps the input untrimmed as the name
ParseLevel_FallbackRaw(str) ==
  IF Falsy(str) THEN <<>>
  ELSE LET match == RegexMatch(str) IN
       IF match = <<>>
         THEN <<[name |-> str, buCode |-> <<>>, beblCode |-> <<>>,
                 raw |-> str]>>
         ELSE <<[name |-> Trim(match[1]), buCode |-> Trim(match[2]),
                 beblCode |-> Trim(match[3]), raw |-> str]>>

ParseLevel(str) ==
  IF Falsy(str) THEN <<>>
  ELSE LET match == RegexMatch(str) IN
       IF match = <<>>
         THEN <<[name |-> Trim(str), buCode |-> <<>>, beblCode |-> <<>>,
                 raw |-> str]>>
         ELSE <<[name |-> Trim(match[1]), buCode |-> Trim(match[2]),
                 beblCode |-> Trim(match[3]), raw |-> str]>>

(***************************************************************************)
(* App.hierarchyData: rows and beblFullNameMap                             *)
(***************************************************************************)
\* [row.level0, row.level1, ...]: the level columns, in order.  The program
\* has eleven (level0..level10); the model keeps the first three.
LevelFields == <<"level0", "level1", "level2">>

\* Array.prototype.join
RECURSIVE Join(_, _)
Join(parts, sep) ==
  IF parts = <<>> THEN <<>>
  ELSE IF Len(parts) = 1 THEN parts[1]
  ELSE parts[1] \o sep \o Join(Tail(parts), sep)

\* a map that keeps the first value set for a key
MapSet_KeepFirst(map, key, val) ==
  [k \in DOMAIN map \cup {key} |-> IF k \in DOMAIN map THEN map[k] ELSE val]

\* Map.prototype.set
MapSet(map, key, val) ==
  [k \in DOMAIN map \cup {key} |-> IF k = key THEN val ELSE map[k]]

\* a number cell, <<>> when null/undefined:  cell || 0
OrZero(cell) == IF cell = <<>> THEN 0 ELSE cell[1]

\* the SigmaDataRow built from the i-th cells of the mapped columns
MakeRow(cells) ==
  [marketValue  |-> OrZero(cells.marketValue),
   beblFullName |-> IF Falsy(cells.beblFullName) THEN NULL
                    ELSE cells.beblFullName,
   level0 |-> cells.level0, level1 |-> cells.level1, level2 |-> cells.level2]

\* for (const level of levels) { if (!level) break; pathParts.push(level);
\*   beblFullNameMap.set(pathParts.join('|'), row.beblFullName) }
RECURSIVE SetPrefixNames(_, _, _, _)
SetPrefixNames(map, row, k, pathParts) ==
  IF k > Len(LevelFields) \/ Falsy(row[LevelFields[k]]) THEN map
  ELSE LET parts == Append(pathParts, row[LevelFields[k]]) IN
       SetPrefixNames(MapSet(map, Join(parts, <<"|">>), row.beblFullName),
                      row, k + 1, parts)

\* the loop over i: the map after rows 1..n
RECURSIVE BuildNameMap(_, _)
BuildNameMap(cells, n) ==
  IF n = 0 THEN <<>>
  ELSE LET map == BuildNameMap(cells, n - 1)
           row == MakeRow(cells[n])
       IN IF row.beblFullName # NULL
            THEN SetPrefixNames(map, row, 1, <<>>)
            ELSE map

(***************************************************************************)
(* transformToHierarchy                                                    *)
(***************************************************************************)
\* extractPath with "continue" in place of "break"
RECURSIVE ExtractFrom_SkipGaps(_, _)
ExtractFrom_SkipGaps(row, k) ==
  IF k > Len(LevelFields) THEN <<>>
  ELSE IF Falsy(row[LevelFields[k]]) THEN ExtractFrom_SkipGaps(row, k + 1)
  ELSE ParseLevel(row[LevelFields[k]]) \o ExtractFrom_SkipGaps(row, k + 1)

RECURSIVE ExtractFrom(_, _)
ExtractFrom(row, k) ==
  IF k > Len(LevelFields) \/ Falsy(row[LevelFields[k]]) THEN <<>>
  ELSE ParseLevel(row[LevelFields[k]]) \o ExtractFrom(row, k + 1)

ExtractPath(row) == ExtractFrom(row, 1)

\* a path key made of the last level alone
BuildPathKey_LastOnly(pathArray) == pathArray[Len(pathArray)].raw

BuildPathKey(pathArray) ==
  Join([k \in 1..Len(pathArray) |-> pathArray[k].raw], <<"|">>)

RootKey == <<>>
RootNode ==
  [name |-> <<"R", "o", "o", "t">>, buCode |-> NULL, beblCode |-> NULL,
   beblFullName |-> NULL, rawLabel |-> NULL, level |-> -1, path |-> RootKey,
   children |-> <<>>, value |-> <<>>]

MapGet(map, key) == IF key \in DOMAIN map THEN map[key] ELSE NULL

\* children.unshift in place of children.push
PushChild_Front(children, key) == <<key>> \o children

\* parentNode.children.push(newNode), children held as path keys
PushChild(children, key) == Append(children, key)

\* existingNode.value = marketValue, whatever it was
AddValue_Overwrite(value, marketValue) == <<marketValue>>

\* if (existingNode.value !== undefined) existingNode.value += marketValue
\* else existingNode.value = marketValue
AddValue(value, marketValue) ==
  IF value # <<>> THEN <<value[1] + marketValue>> ELSE <<marketValue>>

\* path.forEach((level, index) => {...}) from position index (1-based) on;
\* parentKey is the path key of parentNode
RECURSIVE WalkPath(_, _, _, _, _, _)
WalkPath(nm, names, path, index, parentKey, marketValue) ==
  IF index > Len(path) THEN nm
  ELSE
    LET level == path[index]
        nodePathKey == BuildPathKey(SubSeq(path, 1, index))
        isLast == (index = Len(path))
    IN IF nodePathKey \notin DOMAIN nm
         THEN LET newNode ==
                    [name |-> level.name, buCode |-> level.buCode,
                     beblCode |-> level.beblCode,
                     beblFullName |-> MapGet(names, nodePathKey),
                     rawLabel |-> level.raw, level |-> index - 1,
                     path |-> nodePathKey, children |-> <<>>,
                     value |-> IF isLast THEN <<marketValue>> ELSE <<>>]
                  pushed ==
                    [k \in DOMAIN nm \cup {nodePathKey} |->
                       IF k = nodePathKey THEN newNode
                       ELSE IF k = parentKey
                         THEN [nm[k] EXCEPT
                                 !.children = PushChild(@, nodePathKey)]
                         ELSE nm[k]]
              IN WalkPath(pushed, names, path, index + 1, nodePathKey, marketValue)
         ELSE LET added ==
                    IF isLast
                      THEN [nm EXCEPT ![nodePathKey].value =
                              AddValue(@, marketValue)]
                      ELSE nm
              IN WalkPath(added, names, path, index + 1, nodePathKey, marketValue)

\* the callback of rows.forEach
ProcessRow(nm, names, row) ==
  LET marketValue == row.marketValue
      path == ExtractPath(row)
  IN IF Len(path) = 0 THEN nm
     ELSE WalkPath(nm, names, path, 1, RootKey, marketValue)

\* transformToHierarchy(rows, beblFullNameMap) after its first n rows
RECURSIVE TransformRows(_, _, _)
TransformRows(rs, names, n) ==
  IF n = 0 THEN RootKey :> RootNode
  ELSE ProcessRow(TransformRows(rs, names, n - 1), names, rs[n])

TransformToHierarchy(rs, names) == TransformRows(rs, names, Len(rs))

(***************************************************************************)
(* findNode (depth first, by path) and d3.hierarchy(focusedNode).sum(...)  *)
(***************************************************************************)
\* findNode(node, path): the key of the first node, depth first from the
\* node at key, whose path is the given one; NULL when there is none
RECURSIVE FindNode(_, _, _)
RECURSIVE FindInChildren(_, _, _, _)
FindNode(nm, key, path) ==
  IF nm[key].path = path THEN key
  ELSE FindInChildren(nm, nm[key].children, 1, path)
FindInChildren(nm, children, k, path) ==
  IF k > Len(children) THEN NULL
  ELSE LET found == FindNode(nm, children[k], path) IN
       IF found # NULL THEN found
       ELSE FindInChildren(nm, children, k + 1, path)

\* focusedNode: !focusedPath gives data; so does a path that is not found
FocusedNode(nm, path) ==
  IF Falsy(path) THEN RootKey
  ELSE LET found == FindNode(nm, RootKey, path) IN
       IF found # NULL THEN found ELSE RootKey

\* an accessor that counts the value of leaves only
SumAccessor_LeafOnly(d) == IF d.children # <<>> THEN 0 ELSE OrZero(d.value)

\* the accessor handed to sum:  d => d.value || 0
SumAccessor(d) == OrZero(d.value)

\* a sum in which a node with children counts its children only
RECURSIVE HierarchySum_ChildrenOnly(_, _)
RECURSIVE SumChildren_ChildrenOnly(_, _, _)
HierarchySum_ChildrenOnly(nm, key) ==
  IF nm[key].children = <<>> THEN SumAccessor(nm[key])
  ELSE SumChildren_ChildrenOnly(nm, nm[key].children, 1)
SumChildren_ChildrenOnly(nm, children, k) ==
  IF k > Len(children) THEN 0
  ELSE HierarchySum_ChildrenOnly(nm, children[k])
         + SumChildren_ChildrenOnly(nm, children, k + 1)

\* node.sum: value = accessor(data) + the values of the children
RECURSIVE HierarchySum(_, _)
RECURSIVE SumChildren(_, _, _)
HierarchySum(nm, key) ==
  SumAccessor(nm[key]) + SumChildren(nm, nm[key].children, 1)
SumChildren(nm, children, k) ==
  IF k > Len(children) THEN 0
  ELSE HierarchySum(nm, children[k]) + SumChildren(nm, children, k + 1)

\* node.descendants(), as a set of path keys
RECURSIVE Descendants(_, _)
RECURSIVE DescendantsOfChildren(_, _, _)
Descendants(nm, key) ==
  {key} \cup DescendantsOfChildren(nm, nm[key].children, 1)
DescendantsOfChildren(nm, children, k) ==
  IF k > Len(children) THEN {}
  ELSE Descendants(nm, children[k])
         \cup DescendantsOfChildren(nm, children, k + 1)

\* a sort that puts a child before the children of equal value
RECURSIVE InsertByValue_Unstable(_, _, _)
InsertByValue_Unstable(value, sorted, key) ==
  IF sorted = <<>> THEN <<key>>
  ELSE IF value[key] - value[Head(sorted)] >= 0 THEN <<key>> \o sorted
  ELSE <<Head(sorted)>> \o InsertByValue_Unstable(value, Tail(sorted), key)

\* .sort((a, b) => (b.value || 0) - (a.value || 0)): node.sort sorts the
\* children array of every node of the hierarchy with Array.prototype.sort,
\* which is stable: a child goes after the children already placed whose
\* value is not smaller
RECURSIVE InsertByValue(_, _, _)
InsertByValue(value, sorted, key) ==
  IF sorted = <<>> THEN <<key>>
  ELSE IF value[key] - value[Head(sorted)] > 0 THEN <<key>> \o sorted
  ELSE <<Head(sorted)>> \o InsertByValue(value, Tail(sorted), key)

RECURSIVE SortByValue(_, _)
SortByValue(value, children) ==
  IF children = <<>> THEN <<>>
  ELSE InsertByValue(value,
                     SortByValue(value, SubSeq(children, 1, Len(children) - 1)),
                     children[Len(children)])

\* the values of the hierarchy of the focused node after sum()
HierarchyValues(nm, path) ==
  [k \in Descendants(nm, FocusedNode(nm, path)) |-> HierarchySum(nm, k)]

\* the children of every node of the hierarchy after sort()
HierarchyChildren(nm, path) ==
  LET value == HierarchyValues(nm, path) IN
  [k \in DOMAIN value |-> SortByValue(value, nm[k].children)]

\* a layout that sorts the children arrays of the data in place
DataAfterLayout_SortInPlace(nm, path) ==
  LET children == HierarchyChildren(nm, path) IN
  [k \in DOMAIN nm |->
     IF k \in DOMAIN children THEN [nm[k] EXCEPT !.children = children[k]]
     ELSE nm[k]]

\* d3.hierarchy(focusedNode) wraps the data nodes: sum, sort and pack write
\* value, children, x, y and r of the wrappers, the data is left as it was
DataAfterLayout(nm, path) == nm

(***************************************************************************)
(* App: focus and breadcrumbs                                              *)
(***************************************************************************)
\* findPath(current, targetPath) of the handlers: <<>> when it returns
\* false, else <<trail>>, the trail being what the call leaves in trail
RECURSIVE FindPath(_, _, _)
RECURSIVE FindPathInChildren(_, _, _, _)
FindPath(nm, current, targetPath) ==
  IF nm[current].path = targetPath
    THEN <<IF nm[current].level >= 0 THEN <<current>> ELSE <<>>>>
    ELSE LET below == FindPathInChildren(nm, nm[current].children, 1,
                                         targetPath)
         IN IF below = <<>> THEN <<>>
            ELSE <<(IF nm[current].level >= 0 THEN <<current>> ELSE <<>>)
                     \o below[1]>>
FindPathInChildren(nm, children, k, targetPath) ==
  IF k > Len(children) THEN <<>>
  ELSE LET found == FindPath(nm, children[k], targetPath) IN
       IF found # <<>> THEN found
       ELSE FindPathInChildren(nm, children, k + 1, targetPath)

\* the breadcrumb trail the handlers build for a path
Trail(nm, path) ==
  LET found == FindPath(nm, RootKey, path) IN
  IF found = <<>> THEN <<>> ELSE found[1]

(***************************************************************************)
(* CirclePacking: label candidates and collision detection                 *)
(***************************************************************************)
MinLabelRadius == 35       \* d.r > 35
OverlapAllowance == 10     \* candidate.r + existing.r - 10

\* a filter that lets the radius 35 itself through
IsCandidate_AtLeast(d) == d.r >= MinLabelRadius /\ d.depth > 0

\* nodes.filter(d => d.r > 35 && d.depth > 0), as indices into nodes
IsCandidate(d) == d.r > MinLabelRadius /\ d.depth > 0

RECURSIVE FilterCandidates(_, _)
FilterCandidates(ns, k) ==
  IF k > Len(ns) THEN <<>>
  ELSE (IF IsCandidate(ns[k]) THEN <<k>> ELSE <<>>)
         \o FilterCandidates(ns, k + 1)

\* .sort((a, b) => b.r - a.r): Array.prototype.sort is stable, so a node
\* goes after the nodes already placed whose radius is not smaller
RECURSIVE InsertByRadius(_, _, _)
InsertByRadius(ns, sorted, i) ==
  IF sorted = <<>> THEN <<i>>
  ELSE IF ns[i].r - ns[Head(sorted)].r > 0 THEN <<i>> \o sorted
  ELSE <<Head(sorted)>> \o InsertByRadius(ns, Tail(sorted), i)

RECURSIVE SortByRadius(_, _)
SortByRadius(ns, seq) ==
  IF seq = <<>> THEN <<>>
  ELSE InsertByRadius(ns, SortByRadius(ns, SubSeq(seq, 1, Len(seq) - 1)),
                      seq[Len(seq)])

LabelCandidates(ns) == SortByRadius(ns, FilterCandidates(ns, 1))

\* a test that finds two circles too close only when their boundaries
\* cross, not when one lies within the other
TooClose_BoundariesCross(candidate, existing) ==
  LET dx == candidate.x - existing.x
      dy == candidate.y - existing.y
      minDistance == candidate.r + existing.r - OverlapAllowance
      gap == candidate.r - existing.r
  IN /\ minDistance > 0 /\ dx * dx + dy * dy < minDistance * minDistance
     /\ dx * dx + dy * dy > gap * gap

\* distance < minDistance with distance = Math.sqrt(dx * dx + dy * dy); on
\* the integer coordinates of the model the square root compares exactly
\* as the squares do
TooClose(candidate, existing) ==
  LET dx == candidate.x - existing.x
      dy == candidate.y - existing.y
      minDistance == candidate.r + existing.r - OverlapAllowance
  IN minDistance > 0 /\ dx * dx + dy * dy < minDistance * minDistance

\* a collision test against the label accepted last only
HasOverlap_LastOnly(ns, candidate, shown) ==
  shown # <<>> /\ TooClose(ns[candidate], ns[shown[Len(shown)]])

\* the inner loop: hasOverlap
HasOverlap(ns, candidate, shown) ==
  \E k \in 1..Len(shown) : TooClose(ns[candidate], ns[shown[k]])

\* the outer loop over labelCandidates from position k on
RECURSIVE ScanCandidates(_, _, _, _)
ScanCandidates(ns, candidates, k, shown) ==
  IF k > Len(candidates) THEN shown
  ELSE ScanCandidates(ns, candidates, k + 1,
         IF HasOverlap(ns, candidates[k], shown) THEN shown
         ELSE Append(shown, candidates[k]))

LabelsToShow(ns) == ScanCandidates(ns, LabelCandidates(ns), 1, <<>>)

(***************************************************************************)
(* flattenHierarchy                                                        *)
(***************************************************************************)
\* the SearchResult pushed for a node
SearchResultOf(node) ==
  [name |-> node.name, buCode |-> node.buCode, beblCode |-> node.beblCode,
   beblFullName |-> node.beblFullName, rawLabel |-> node.rawLabel,
   path |-> node.path, value |-> OrZero(node.value), level |-> node.level]

\* a traversal that pushes a node after its children
RECURSIVE FlattenHierarchy_PostOrder(_, _)
RECURSIVE FlattenChildren_PostOrder(_, _, _)
FlattenHierarchy_PostOrder(nm, key) ==
  FlattenChildren_PostOrder(nm, nm[key].children, 1)
    \o (IF nm[key].level >= 0 THEN <<SearchResultOf(nm[key])>> ELSE <<>>)
FlattenChildren_PostOrder(nm, children, k) ==
  IF k > Len(children) THEN <<>>
  ELSE FlattenHierarchy_PostOrder(nm, children[k])
         \o FlattenChildren_PostOrder(nm, children, k + 1)

\* flattenHierarchy(node, results): what the call appends to results
RECURSIVE FlattenHierarchy(_, _)
RECURSIVE FlattenChildren(_, _, _)
FlattenHierarchy(nm, key) ==
  (IF nm[key].level >= 0 THEN <<SearchResultOf(nm[key])>> ELSE <<>>)
    \o FlattenChildren(nm, nm[key].children, 1)
FlattenChildren(nm, children, k) ==
  IF k > Len(children) THEN <<>>
  ELSE FlattenHierarchy(nm, children[k])
         \o FlattenChildren(nm, children, k + 1)

(***************************************************************************)
(* searchNodes and the debounced search of SearchFilter                    *)
(***************************************************************************)
Letters ==
  <<"a","b","c","d","e","f","g","h","i","j","k","l","m","n","o","p","q","r",
    "s","t","u","v","w","x","y","z">>
Capitals ==
  <<"A","B","C","D","E","F","G","H","I","J","K","L","M","N","O","P","Q","R",
    "S","T","U","V","W","X","Y","Z">>

\* String.prototype.toLowerCase, on the letters A-Z
ToLowerCase(s) ==
  [k \in 1..Len(s) |->
     IF \E i \in 1..26 : Capitals[i] = s[k]
       THEN Letters[CHOOSE i \in 1..26 : Capitals[i] = s[k]]
       ELSE s[k]]

\* String.prototype.includes
Includes(s, term) ==
  \E i \in 0..(Len(s) - Len(term)) : SubSeq(s, i + 1, i + Len(term)) = term

\* field && field.toLowerCase().includes(term)
FieldIncludes(field, term) ==
  ~Falsy(field) /\ Includes(ToLowerCase(field), term)

\* a filter callback that leaves rawLabel out
Matches_NoRawLabel(result, term) ==
  \/ Includes(ToLowerCase(result.name), term)
  \/ FieldIncludes(result.buCode, term)
  \/ FieldIncludes(result.beblCode, term)
  \/ FieldIncludes(result.beblFullName, term)

\* the callback of searchResults.filter
Matches(result, term) ==
  \/ Includes(ToLowerCase(result.name), term)
  \/ FieldIncludes(result.buCode, term)
  \/ FieldIncludes(result.beblCode, term)
  \/ FieldIncludes(result.beblFullName, term)
  \/ FieldIncludes(result.rawLabel, term)

\* Array.prototype.filter with Matches, from position k on
RECURSIVE FilterMatches(_, _, _)
FilterMatches(searchResults, term, k) ==
  IF k > Len(searchResults) THEN <<>>
  ELSE (IF Matches(searchResults[k], term) THEN <<searchResults[k]>>
        ELSE <<>>) \o FilterMatches(searchResults, term, k + 1)

SearchNodes(term, searchResults) ==
  IF Trim(term) = <<>> THEN <<>>
  ELSE FilterMatches(searchResults, ToLowerCase(term), 1)

SearchLimit == 50      \* filtered.slice(0, 50)

\* Array.prototype.slice(0, end)
Slice0(seq, end) == SubSeq(seq, 1, IF end > Len(seq) THEN Len(seq) ELSE end)

(***************************************************************************)
(* SearchFilter: the debounced search effect.  The state updates of one    *)
(* handler or callback are applied together (React 18 batches them), and   *)
(* the effect runs with the render that follows a change of searchTerm or  *)
(* of searchableNodes.  The delay of 300 ms is not modelled: a pending     *)
(* timeout fires at any later moment.                                      *)
(***************************************************************************)
\* a cleanup that leaves the timeout of the last run pending
ClearTimeout_Nothing(ts) ==
  [k \in DOMAIN ts |-> [ts[k] EXCEPT !.ofLastRun = FALSE]]

\* the cleanup of the effect, clearTimeout(timer): the timeout that the
\* last run of the effect started is no longer pending
ClearTimeout(ts) == SelectSeq(ts, LAMBDA t : ~t.ofLastRun)

\* one run of the effect after a change of its dependencies: the cleanup of
\* the last run, then setTimeout of a callback closing over term and list
SearchEffect(ts, term, list) ==
  Append(ClearTimeout(ts), [term |-> term, list |-> list, ofLastRun |-> TRUE])

\* a callback that opens the dropdown whenever the text is not blank
TimerCallback_AlwaysOpen(timer) ==
  IF Trim(timer.term) # <<>>
    THEN LET filtered == SearchNodes(timer.term, timer.list) IN
         /\ results' = Slice0(filtered, SearchLimit)
         /\ isOpen' = TRUE
         /\ selectedIndex' = 0
    ELSE /\ results' = <<>>
         /\ isOpen' = FALSE
         /\ UNCHANGED selectedIndex

\* the callback handed to setTimeout
TimerCallback(timer) ==
  IF Trim(timer.term) # <<>>
    THEN LET filtered == SearchNodes(timer.term, timer.list) IN
         /\ results' = Slice0(filtered, SearchLimit)
         /\ isOpen' = (Len(filtered) > 0)
         /\ selectedIndex' = 0
    ELSE /\ results' = <<>>
         /\ isOpen' = FALSE
         /\ UNCHANGED selectedIndex

\* String.prototype.substring(0, end): end is clamped to 0..length
Substring0(s, end) ==
  LET e == IF end < 0 THEN 0 ELSE IF end > Len(s) THEN Len(s) ELSE end
  IN SubSeq(s, 1, e)

Ellipsis == <<".", ".", ".">>

\* Math.floor(d.r / 3.5), for an integer radius
MaxLength(r) == (2 * r) \div 7

\* a truncation that cuts at maxLength and then appends the ellipsis
DisplayName_NoRoom(name, r) ==
  IF Len(name) > MaxLength(r)
    THEN Substring0(name, MaxLength(r)) \o Ellipsis
    ELSE name

\* labels.each: the text of one label
DisplayName(name, r) ==
  LET maxLength == MaxLength(r) IN
  IF Len(name) > maxLength
    THEN Substring0(name, maxLength - 3) \o Ellipsis
    ELSE name

\* the texts of the labels, in the order of labelsToShow
DisplayNames(ns, shown) ==
  [k \in 1..Len(shown) |-> DisplayName(ns[shown[k]].name, ns[shown[k]].r)]

(***************************************************************************)
(* Idle values of the parts a specification does not exercise              *)
(***************************************************************************)
IdleParse == levelString = NULL /\ parsed = <<>>
IdleBuild ==
  /\ sigmaData = <<>> /\ rows = <<>> /\ beblFullNameMap = <<>>
  /\ nodeMap = <<>> /\ rowIndex = 0
IdlePack  ==
  /\ focusedPath = NULL /\ packValue = <<>> /\ packChildren = <<>>
  /\ breadcrumbs = <<>>
IdleLabel == nodes = <<>> /\ labelsToShow = <<>> /\ displayNames = <<>>
IdleSearch ==
  /\ searchableNodes = <<>> /\ searchTerm = <<>> /\ results = <<>>
  /\ isOpen = FALSE /\ selectedIndex = 0
  /\ timers = <<>> /\ lastInput = "none"

(***************************************************************************)
(* SpecParse: parseLevel applied to every string up to MaxLen characters   *)
(***************************************************************************)
MaxLen == 7
Alphabet == {"a", "X", " ", "(", ")", "-"}

InitParse ==
  /\ \/ levelString = NULL
     \/ \E k \in 0..MaxLen : levelString \in [1..k -> Alphabet]
  /\ parsed = <<>>
  /\ pc = "parse"
  /\ IdleBuild /\ IdlePack /\ IdleLabel /\ IdleSearch

CallParseLevel ==
  /\ pc = "parse"
  /\ parsed' = ParseLevel(levelString)
  /\ pc' = "parsed"
  /\ UNCHANGED <<levelString, buildVars, packVars, labelVars, searchVars>>

NextParse == CallParseLevel

SpecParse == InitParse /\ [][NextParse]_vars

(***************************************************************************)
(* Spec: the host delivers rows, App builds the hierarchy row by row, and   *)
(* CirclePacking sums the values of the focused subtree.  No descriptive   *)
(* column is mapped (config.beblFullName is unset).                        *)
(***************************************************************************)
MaxRows == 3
\* the cells of the level columns: level0 and level1 are mapped, a missing
\* cell being null in level0 and the empty string in level1, and "a|b"
\* contains the key delimiter; level2 (and the columns after it) is not
\* mapped, so that its cells are null
Level0Cells == {NULL, <<"a">>, <<"a", "|", "b">>}
Level1Cells == {<<>>, <<"a">>, <<"b">>}
Level2Cells == {NULL}
ValueCells == {<<>>, <<1>>}
NameCells  == {NULL, <<"x">>, <<"y">>}
MissingPath == <<"z">>

CellRows(names) ==
  [marketValue : ValueCells, beblFullName : names,
   level0 : Level0Cells, level1 : Level1Cells, level2 : Level2Cells]

Init ==
  /\ \E n \in 0..MaxRows : sigmaData \in [1..n -> CellRows({NULL})]
  /\ rows = <<>> /\ beblFullNameMap = <<>> /\ nodeMap = <<>> /\ rowIndex = 0
  /\ pc = "data"
  /\ IdleParse /\ IdlePack /\ IdleLabel /\ IdleSearch

\* the hierarchyData memo up to the call of transformToHierarchy and its
\* first lines (root, nodeMap); no rows give hierarchyData = null
BuildRows ==
  /\ pc = "data"
  /\ rows' = [i \in 1..Len(sigmaData) |-> MakeRow(sigmaData[i])]
  /\ beblFullNameMap' = BuildNameMap(sigmaData, Len(sigmaData))
  /\ nodeMap' = IF Len(sigmaData) = 0 THEN <<>> ELSE (RootKey :> RootNode)
  /\ rowIndex' = 0
  /\ pc' = IF Len(sigmaData) = 0 THEN "null" ELSE "forEach"
  /\ UNCHANGED <<sigmaData, parseVars, packVars, labelVars, searchVars>>

\* one call of the rows.forEach callback; after the last, return root
ForEachRow ==
  /\ pc = "forEach"
  /\ rowIndex < Len(rows)
  /\ nodeMap' = ProcessRow(nodeMap, beblFullNameMap, rows[rowIndex + 1])
  /\ rowIndex' = rowIndex + 1
  /\ pc' = IF rowIndex + 1 = Len(rows) THEN "done" ELSE "forEach"
  /\ UNCHANGED <<sigmaData, rows, beblFullNameMap, parseVars, packVars,
                 labelVars, searchVars>>

\* CirclePacking renders with some focusedPath: focusedNode and the
\* hierarchy's summed values
PackLayout ==
  /\ pc = "done"
  /\ \E fp \in DOMAIN nodeMap \cup {NULL, MissingPath} :
       /\ focusedPath' = fp
       /\ packValue' = HierarchyValues(nodeMap, fp)
       /\ packChildren' = HierarchyChildren(nodeMap, fp)
       /\ nodeMap' = DataAfterLayout(nodeMap, fp)
  /\ pc' = "packed"
  /\ UNCHANGED <<sigmaData, rows, beblFullNameMap, rowIndex, parseVars,
                 labelVars, searchVars, breadcrumbs>>

Next == BuildRows \/ ForEachRow \/ PackLayout

Spec == Init /\ [][Next]_vars

\* the same program with the descriptive column mapped
InitNames ==
  /\ \E n \in 0..MaxRows :
       sigmaData \in [1..n -> {c \in CellRows(NameCells) :
                                  c.marketValue = <<1>> /\ c.level1 # <<"a">>}]
  /\ rows = <<>> /\ beblFullNameMap = <<>> /\ nodeMap = <<>> /\ rowIndex = 0
  /\ pc = "data"
  /\ IdleParse /\ IdlePack /\ IdleLabel /\ IdleSearch

SpecNames == InitNames /\ [][Next]_vars

\* the same program over rows of three first levels and the weights
\* missing, 1 and 2, with one row a level deeper
SortRows ==
  [marketValue : {<<>>, <<1>>, <<2>>}, beblFullName : {NULL},
   level0 : {<<"a">>, <<"b">>, <<"c">>}, level1 : {<<>>}, level2 : {NULL}]
    \cup
  [marketValue : {<<1>>}, beblFullName : {NULL},
   level0 : {<<"a">>}, level1 : {<<"a">>}, level2 : {NULL}]

InitSort ==
  /\ \E n \in 0..MaxRows : sigmaData \in [1..n -> SortRows]
  /\ rows = <<>> /\ beblFullNameMap = <<>> /\ nodeMap = <<>> /\ rowIndex = 0
  /\ pc = "data"
  /\ IdleParse /\ IdlePack /\ IdleLabel /\ IdleSearch

SpecSort == InitSort /\ [][Next]_vars

(***************************************************************************)
(* SpecFlat: the hierarchy is built and then flattened for the search      *)
(***************************************************************************)
\* rows under the first levels "a" and "b": under "a" a row is weighted iff
\* it carries a descriptive value, under "b" it has neither
FlatRows ==
  {c \in CellRows({NULL, <<"x">>}) :
     /\ c.level0 # <<"a", "|", "b">>
     /\ (c.marketValue = <<>>) <=> (c.beblFullName = NULL)}
     \cup
  {[c EXCEPT !.level0 = <<"b">>] :
     c \in {d \in CellRows({NULL}) :
              d.level0 = <<"a">> /\ d.marketValue = <<>>}}

InitFlat ==
  /\ \E n \in 0..MaxRows : sigmaData \in [1..n -> FlatRows]
  /\ rows = <<>> /\ beblFullNameMap = <<>> /\ nodeMap = <<>> /\ rowIndex = 0
  /\ pc = "data"
  /\ IdleParse /\ IdlePack /\ IdleLabel /\ IdleSearch

\* the searchableNodes memo: [] without hierarchyData; with hierarchyData
\* App renders SearchFilter, whose effect runs for the first time
FlattenTree ==
  /\ pc \in {"done", "null"}
  /\ searchableNodes' =
       IF pc = "null" THEN <<>> ELSE FlattenHierarchy(nodeMap, RootKey)
  /\ timers' =
       IF pc = "null" THEN <<>>
       ELSE SearchEffect(<<>>, searchTerm, searchableNodes')
  /\ pc' = "flat"
  /\ UNCHANGED <<buildVars, parseVars, packVars, labelVars, searchTerm,
                 results, isOpen, selectedIndex, lastInput>>

NextFlat == BuildRows \/ ForEachRow \/ FlattenTree

SpecFlat == InitFlat /\ [][NextFlat]_vars

(***************************************************************************)
(* SpecFocus: the hierarchy is built and flattened once; then the user     *)
(* clicks circles and breadcrumbs, selects search results, clears the      *)
(* search and resets, and CirclePacking lays the focused subtree out       *)
(***************************************************************************)
\* weighted rows over three mapped level columns; "c" names third-level
\* nodes only
FocusRows ==
  {c \in [marketValue : {<<1>>}, beblFullName : {NULL},
          level0 : {<<"a">>, <<"b">>}, level1 : {<<>>, <<"a">>},
          level2 : {NULL, <<"c">>}] :
     c.level1 = <<>> => c.level2 = NULL}

\* a search result kept from a tree that is gone: its path names no node
StaleResult ==
  [name |-> <<"z">>, buCode |-> <<>>, beblCode |-> <<>>,
   beblFullName |-> NULL, rawLabel |-> <<"z">>, path |-> MissingPath,
   value |-> 0, level |-> 0]

InitFocus ==
  /\ \E n \in 0..MaxRows : sigmaData \in [1..n -> FocusRows]
  /\ rows = <<>> /\ beblFullNameMap = <<>> /\ nodeMap = <<>> /\ rowIndex = 0
  /\ pc = "data"
  /\ IdleParse /\ IdlePack /\ IdleLabel /\ IdleSearch

\* App renders the visualization: hierarchyData is not null
Viewing == pc = "flat" /\ nodeMap # <<>>

\* the layout on screen is the one of the current focusedPath
Rendered ==
  /\ packValue # <<>>
  /\ packValue = HierarchyValues(nodeMap, focusedPath)

\* CirclePacking's memos for the current focusedPath
RenderLayout ==
  /\ Viewing
  /\ packValue' = HierarchyValues(nodeMap, focusedPath)
  /\ packChildren' = HierarchyChildren(nodeMap, focusedPath)
  /\ nodeMap' = DataAfterLayout(nodeMap, focusedPath)
  /\ UNCHANGED <<sigmaData, rows, beblFullNameMap, rowIndex, pc, focusedPath,
                 breadcrumbs, parseVars, labelVars, searchVars>>

\* a handler that appends the node to the trail it has
HandleNodeClick_AppendTrail(node) ==
  /\ IF node = NULL
       THEN focusedPath' = NULL /\ breadcrumbs' = <<>>
       ELSE /\ focusedPath' = node
            /\ breadcrumbs' = Append(breadcrumbs, node)
  /\ UNCHANGED <<buildVars, pc, packValue, packChildren, parseVars,
                 labelVars, searchVars>>

\* handleNodeClick(node), node being NULL or given by its key, which is its
\* path: a node object of a tree that was replaced still holds its path
HandleNodeClick(node) ==
  /\ IF node = NULL
       THEN focusedPath' = NULL /\ breadcrumbs' = <<>>
       ELSE /\ focusedPath' = node
            /\ breadcrumbs' = Trail(nodeMap, node)
  /\ UNCHANGED <<buildVars, pc, packValue, packChildren, parseVars,
                 labelVars, searchVars>>

\* a click handler that zooms into childless circles too
ClickHandler_AnyCircle(d) ==
  IF d = FocusedNode(nodeMap, focusedPath)
    THEN UNCHANGED vars
    ELSE HandleNodeClick(d)

\* the click handler of circle d: nothing for the circle of depth 0 and
\* for a circle without children
ClickHandler(d) ==
  IF d = FocusedNode(nodeMap, focusedPath) \/ nodeMap[d].children = <<>>
    THEN UNCHANGED vars
    ELSE HandleNodeClick(d)

\* a click on a circle of the layout on screen
ClickCircle ==
  /\ Viewing /\ Rendered
  /\ \E d \in DOMAIN packValue : ClickHandler(d)

\* handleBreadcrumbClick(node) for a node of the trail
BreadcrumbClick ==
  /\ Viewing
  /\ \E i \in 1..Len(breadcrumbs) : HandleNodeClick(breadcrumbs[i])

\* a selection that zooms into any node it finds, childless or not
HandleSearchSelect_AnyNode(result) ==
  LET foundNode == FindNode(nodeMap, RootKey, result.path) IN
  IF foundNode = NULL THEN <<focusedPath, breadcrumbs>>
  ELSE <<result.path, Trail(nodeMap, result.path)>>

\* handleSearchSelect(result): the new <<focusedPath, breadcrumbs>>
HandleSearchSelect(result) ==
  LET foundNode == FindNode(nodeMap, RootKey, result.path) IN
  IF foundNode = NULL THEN <<focusedPath, breadcrumbs>>
  ELSE IF Len(nodeMap[foundNode].children) > 0
    THEN <<result.path, Trail(nodeMap, result.path)>>
    ELSE <<focusedPath, breadcrumbs>>

\* SearchFilter.handleSelect(result), which calls onSelect(result)
SelectResult(result) ==
  /\ Viewing
  /\ searchTerm' = result.name
  /\ isOpen' = FALSE
  /\ timers' = IF result.name = searchTerm THEN timers
               ELSE SearchEffect(timers, result.name, searchableNodes)
  /\ lastInput' = "selected"
  /\ focusedPath' = HandleSearchSelect(result)[1]
  /\ breadcrumbs' = HandleSearchSelect(result)[2]
  /\ UNCHANGED <<buildVars, pc, packValue, packChildren, parseVars,
                 labelVars, searchableNodes, results, selectedIndex>>

SelectSomeResult ==
  \E p \in 1..(Len(searchableNodes) + 1) :
    SelectResult(IF p > Len(searchableNodes) THEN StaleResult
                 ELSE searchableNodes[p])

\* SearchFilter.handleClear, which calls onClear = handleSearchClear
ClearSearch ==
  /\ Viewing
  /\ searchTerm' = <<>> /\ results' = <<>> /\ isOpen' = FALSE
  /\ timers' = IF searchTerm = <<>> THEN timers
               ELSE SearchEffect(timers, <<>>, searchableNodes)
  /\ lastInput' = "cleared"
  /\ focusedPath' = NULL /\ breadcrumbs' = <<>>
  /\ UNCHANGED <<buildVars, pc, packValue, packChildren, parseVars,
                 labelVars, searchableNodes, selectedIndex>>

\* handleReset
Reset ==
  /\ Viewing
  /\ focusedPath' = NULL /\ breadcrumbs' = <<>>
  /\ UNCHANGED <<buildVars, pc, packValue, packChildren, parseVars,
                 labelVars, searchVars>>

NextFocus ==
  \/ BuildRows \/ ForEachRow \/ FlattenTree
  \/ RenderLayout \/ ClickCircle \/ BreadcrumbClick
  \/ SelectSomeResult \/ ClearSearch \/ Reset

SpecFocus == InitFocus /\ [][NextFocus]_vars

(***************************************************************************)
(* SpecReplace: as SpecFocus, and the host replaces the rows: App builds   *)
(* the new hierarchy and renders with the focus it holds                   *)
(***************************************************************************)
\* weighted rows a/a, b/a and a
ReplaceRows ==
  {c \in [marketValue : {<<1>>}, beblFullName : {NULL},
          level0 : {<<"a">>, <<"b">>}, level1 : {<<>>, <<"a">>},
          level2 : {NULL}] :
     c.level0 = <<"b">> => c.level1 = <<"a">>}

InitReplace ==
  /\ \E n \in 0..MaxRows : sigmaData \in [1..n -> ReplaceRows]
  /\ rows = <<>> /\ beblFullNameMap = <<>> /\ nodeMap = <<>> /\ rowIndex = 0
  /\ pc = "data"
  /\ IdleParse /\ IdlePack /\ IdleLabel /\ IdleSearch

\* sigmaData changes: the hierarchyData and searchableNodes memos are
\* computed again and CirclePacking, when it is rendered, lays out the new
\* data with the focusedPath App holds; no state of App is set.  Without
\* hierarchyData App renders neither CirclePacking nor SearchFilter, whose
\* state is gone and starts afresh when it is rendered again; while it stays
\* rendered its effect runs for the new searchableNodes
SetSigmaData(dataSets) ==
  /\ pc = "flat"
  /\ \E data \in dataSets :
       LET n == Len(data)
           newRows == [i \in 1..n |-> MakeRow(data[i])]
           names == BuildNameMap(data, n)
           tree == IF n = 0 THEN <<>>
                   ELSE TransformToHierarchy(newRows, names)
       IN /\ data # sigmaData
          /\ sigmaData' = data
          /\ rows' = newRows
          /\ beblFullNameMap' = names
          /\ nodeMap' = tree
          /\ rowIndex' = n
          /\ searchableNodes' =
               IF n = 0 THEN <<>> ELSE FlattenHierarchy(tree, RootKey)
          /\ timers' =
               IF n = 0 THEN <<>>
               ELSE SearchEffect(timers, IF nodeMap = <<>> THEN <<>>
                                         ELSE searchTerm, searchableNodes')
          /\ IF n = 0 \/ nodeMap = <<>>
               THEN /\ searchTerm' = <<>> /\ results' = <<>>
                    /\ isOpen' = FALSE /\ selectedIndex' = 0
                    /\ lastInput' = "none"
               ELSE UNCHANGED <<searchTerm, results, isOpen, selectedIndex,
                                lastInput>>
          /\ packValue' =
               IF n = 0 THEN <<>> ELSE HierarchyValues(tree, focusedPath)
          /\ packChildren' =
               IF n = 0 THEN <<>> ELSE HierarchyChildren(tree, focusedPath)
  /\ UNCHANGED <<pc, focusedPath, breadcrumbs, parseVars, labelVars>>

\* the host replaces the rows by up to MaxRows of ReplaceRows
ReplaceData ==
  SetSigmaData(UNION {[1..n -> ReplaceRows] : n \in 0..MaxRows})

NextReplace == NextFocus \/ ReplaceData

SpecReplace == InitReplace /\ [][NextReplace]_vars

(***************************************************************************)
(* SpecLabel: the label pass of the effect over any list of laid-out nodes *)
(***************************************************************************)
MaxNodes == 3
Centers == {<<0, 0>>, <<42, 56>>, <<70, 56>>, <<70, 0>>}
Radii == {35, 40, 45}
Depths == {0, 1}
LaidOut ==
  {[x |-> c[1], y |-> c[2], r |-> r, depth |-> d, name |-> <<"a">>] :
     c \in Centers, r \in Radii, d \in Depths}

InitLabel ==
  /\ \E n \in 0..MaxNodes : nodes \in [1..n -> LaidOut]
  /\ labelsToShow = <<>> /\ displayNames = <<>>
  /\ pc = "layout"
  /\ IdleParse /\ IdleBuild /\ IdlePack /\ IdleSearch

\* the effect with showLabels = true: candidates, collision scan, texts
RenderLabels ==
  /\ pc = "layout"
  /\ labelsToShow' = LabelsToShow(nodes)
  /\ displayNames' = DisplayNames(nodes, LabelsToShow(nodes))
  /\ pc' = "rendered"
  /\ UNCHANGED <<nodes, parseVars, buildVars, packVars, searchVars>>

NextLabel == RenderLabels

SpecLabel == InitLabel /\ [][NextLabel]_vars

(***************************************************************************)
(* SpecNested: the label pass over layouts in which every circle lies      *)
(* within the circle of its parent, as the pack layout leaves them         *)
(***************************************************************************)
\* the circle of the focused node, nodes[1], and below it up to MaxNodes
\* circles centred on one line, each a child of the focused node or of the
\* circle listed before it
NestedXs == {0, 200, 260}
NestedRadii == {36, 100, 120}
NestedChoices == [x : NestedXs, r : NestedRadii, under : {"root", "previous"}]
FocusCircle ==
  [x |-> 0, y |-> 0, r |-> 400, depth |-> 0, name |-> <<"a">>, parent |-> 0]

RECURSIVE NestedDepth(_, _)
NestedDepth(body, j) ==
  IF j = 1 \/ body[j].under = "root" THEN 1
  ELSE NestedDepth(body, j - 1) + 1

NestedLayout(body) ==
  <<FocusCircle>> \o
  [j \in 1..Len(body) |->
     [x |-> body[j].x, y |-> 0, r |-> body[j].r,
      depth |-> NestedDepth(body, j), name |-> <<"a">>,
      parent |-> IF j = 1 \/ body[j].under = "root" THEN 1 ELSE j]]

\* the circle of child lies within the circle of parent
Within(child, parent) ==
  LET dx == child.x - parent.x
      dy == child.y - parent.y
      room == parent.r - child.r
  IN room >= 0 /\ dx * dx + dy * dy <= room * room

InitNested ==
  /\ \E n \in 0..MaxNodes : \E body \in [1..n -> NestedChoices] :
       LET layout == NestedLayout(body) IN
       /\ \A k \in 2..Len(layout) :
            Within(layout[k], layout[layout[k].parent])
       /\ nodes = layout
  /\ labelsToShow = <<>> /\ displayNames = <<>>
  /\ pc = "layout"
  /\ IdleParse /\ IdleBuild /\ IdlePack /\ IdleSearch

SpecNested == InitNested /\ [][NextLabel]_vars

(***************************************************************************)
(* SpecText: the label pass over named nodes of various radii              *)
(***************************************************************************)
MaxLabels == 2
MaxNameLen == 13
NameOfLen(n) == [k \in 1..n |-> Letters[((k - 1) % 26) + 1]]
NodeNames == {NameOfLen(n) : n \in {0} \cup (MaxNameLen - 4)..MaxNameLen}
TextCenters == {<<0, 0>>, <<70, 56>>}
TextRadii == {35, 36, 39, 42}
NamedLaidOut ==
  {[x |-> c[1], y |-> c[2], r |-> r, depth |-> 1, name |-> n] :
     c \in TextCenters, r \in TextRadii, n \in NodeNames}

InitText ==
  /\ \E n \in 0..MaxLabels : nodes \in [1..n -> NamedLaidOut]
  /\ labelsToShow = <<>> /\ displayNames = <<>>
  /\ pc = "layout"
  /\ IdleParse /\ IdleBuild /\ IdlePack /\ IdleSearch

NextText == RenderLabels

SpecText == InitText /\ [][NextText]_vars

(***************************************************************************)
(* SpecSearch: the debounce timer of SearchFilter fires for some search    *)
(* text over some list of searchable records                               *)
(***************************************************************************)
MaxRecords == 52
MaxPattern == 2
\* search texts: empty, blank, lower case, capitals, with a blank inside
Queries ==
  {<<>>, <<" ">>, <<"a">>, <<"A">>, <<" ", "a">>, <<"a", " ">>, <<"A", "a">>,
   <<"b", "(">>}
\* records that hold "a" in one field each, in none, or in capitals
RecordKinds ==
  {[name |-> n, buCode |-> c, beblCode |-> s, beblFullName |-> d,
    rawLabel |-> l] :
     <<n, c, s, d, l>> \in
       {<<<<"a">>, <<>>, <<>>, NULL, <<"a">>>>,
        <<<<"b">>, <<"A">>, <<"b">>, NULL, <<"b", "(", "A", ")", "-", "b">>>>,
        <<<<"b">>, <<"b">>, <<"A">>, NULL, <<"b", "(", "b", ")", "-", "A">>>>,
        <<<<"b">>, <<>>, <<>>, <<"a", " ", "a">>, <<"b">>>>,
        <<<<"b">>, <<>>, <<>>, NULL, <<"b", " ", "a">>>>,
        <<<<"b">>, <<>>, <<>>, NULL, <<"b">>>>,
        <<<<"A", "a">>, <<>>, <<>>, NULL, <<"A", "a">>>>}}
RecordCounts == 0..(MaxPattern + 1) \cup (SearchLimit - 1)..MaxRecords

\* the i-th record of a list that starts with the kinds of pat and goes on
\* with the last of them; paths differ
RecordAt(pat, i) ==
  LET kind == pat[IF i > Len(pat) THEN Len(pat) ELSE i] IN
  [name |-> kind.name, buCode |-> kind.buCode, beblCode |-> kind.beblCode,
   beblFullName |-> kind.beblFullName, rawLabel |-> kind.rawLabel,
   path |-> [k \in 1..i |-> "p"], value |-> 0, level |-> 0]

InitSearch ==
  /\ \E k \in 1..MaxPattern : \E pat \in [1..k -> RecordKinds] :
       \E n \in RecordCounts :
         searchableNodes = [i \in 1..n |-> RecordAt(pat, i)]
  /\ searchTerm \in Queries
  /\ results = <<>> /\ isOpen = FALSE /\ selectedIndex = 0
  /\ timers = SearchEffect(<<>>, searchTerm, searchableNodes)
  /\ lastInput = "typed"
  /\ pc = "typed"
  /\ IdleParse /\ IdleBuild /\ IdlePack /\ IdleLabel

\* the timeout of the search effect fires
SearchTimerFires ==
  /\ pc = "typed"
  /\ timers # <<>>
  /\ TimerCallback(Head(timers))
  /\ timers' = Tail(timers)
  /\ pc' = "searched"
  /\ UNCHANGED <<searchableNodes, searchTerm, lastInput, parseVars, buildVars,
                 packVars, labelVars>>

NextSearch == SearchTimerFires

SpecSearch == InitSearch /\ [][NextSearch]_vars

(***************************************************************************)
(* SpecDropdown: SearchFilter over the searchable nodes of App: the user   *)
(* types, presses keys, clicks result rows, the Clear button and outside   *)
(* the component, timeouts fire, and the host replaces the rows            *)
(***************************************************************************)
\* the texts the user types: empty, blank, the names "a" and "b" in either
\* case, and a text that no record holds
TypedTexts == {<<>>, <<" ">>, <<"a">>, <<"B">>, <<"z">>}
Keys == {"ArrowDown", "ArrowUp", "Enter", "Escape"}

\* the rows the host delivers: none; a/a; a/a and b/a; a
DropdownRow(level0, level1) ==
  [marketValue |-> <<1>>, beblFullName |-> NULL, level0 |-> level0,
   level1 |-> level1, level2 |-> NULL]
DropdownData ==
  {<<>>,
   <<DropdownRow(<<"a">>, <<"a">>)>>,
   <<DropdownRow(<<"a">>, <<"a">>), DropdownRow(<<"b">>, <<"a">>)>>,
   <<DropdownRow(<<"a">>, <<>>)>>}

InitDropdown ==
  /\ sigmaData \in DropdownData
  /\ rows = <<>> /\ beblFullNameMap = <<>> /\ nodeMap = <<>> /\ rowIndex = 0
  /\ pc = "data"
  /\ IdleParse /\ IdlePack /\ IdleLabel /\ IdleSearch

\* onChange of the input: setSearchTerm(e.target.value), and the effect
TypeText ==
  /\ Viewing
  /\ \E text \in TypedTexts :
       /\ text # searchTerm
       /\ searchTerm' = text
       /\ timers' = SearchEffect(timers, text, searchableNodes)
  /\ lastInput' = "typed"
  /\ UNCHANGED <<buildVars, pc, packVars, parseVars, labelVars,
                 searchableNodes, results, isOpen, selectedIndex>>

\* a pending timeout fires
TimerFires ==
  /\ Viewing
  /\ \E k \in 1..Len(timers) :
       /\ TimerCallback(timers[k])
       /\ timers' = SubSeq(timers, 1, k - 1) \o SubSeq(timers, k + 1, Len(timers))
  /\ UNCHANGED <<buildVars, pc, packVars, parseVars, labelVars,
                 searchableNodes, searchTerm, lastInput>>

\* a key handler that moves the selection down without a limit
HandleKeyDown_NoLimit(key) ==
  IF ~isOpen THEN UNCHANGED vars
  ELSE IF key = "ArrowDown"
    THEN /\ selectedIndex' = selectedIndex + 1
         /\ UNCHANGED <<buildVars, pc, packVars, parseVars, labelVars,
                        searchableNodes, searchTerm, results, isOpen, timers,
                        lastInput>>
  ELSE UNCHANGED vars

\* handleKeyDown(e) for e.key = key
HandleKeyDown(key) ==
  IF ~isOpen THEN UNCHANGED vars
  ELSE IF key = "ArrowDown"
    THEN /\ selectedIndex' = Min({selectedIndex + 1, Len(results) - 1})
         /\ UNCHANGED <<buildVars, pc, packVars, parseVars, labelVars,
                        searchableNodes, searchTerm, results, isOpen, timers,
                        lastInput>>
  ELSE IF key = "ArrowUp"
    THEN /\ selectedIndex' = IF selectedIndex - 1 > 0 THEN selectedIndex - 1
                             ELSE 0
         /\ UNCHANGED <<buildVars, pc, packVars, parseVars, labelVars,
                        searchableNodes, searchTerm, results, isOpen, timers,
                        lastInput>>
  ELSE IF key = "Enter"
    THEN IF selectedIndex + 1 \in DOMAIN results
           THEN SelectResult(results[selectedIndex + 1])
           ELSE UNCHANGED vars
  ELSE IF key = "Escape"
    THEN /\ isOpen' = FALSE
         /\ UNCHANGED <<buildVars, pc, packVars, parseVars, labelVars,
                        searchableNodes, searchTerm, results, selectedIndex,
                        timers, lastInput>>
  ELSE UNCHANGED vars

\* onKeyDown of the input
KeyDown == Viewing /\ \E key \in Keys : HandleKeyDown(key)

\* onClick of a row of the dropdown, which is rendered when isOpen and
\* results.length > 0
ClickResultRow ==
  /\ isOpen /\ Len(results) > 0
  /\ \E index \in 1..Len(results) : SelectResult(results[index])

\* the Clear button, rendered when searchTerm is not empty
ClickClear == searchTerm # <<>> /\ ClearSearch

\* the host replaces the rows by other rows of DropdownData
NewSigmaData == SetSigmaData(DropdownData)

\* handleClickOutside for a mousedown outside the component
ClickOutside ==
  /\ Viewing
  /\ isOpen' = FALSE
  /\ UNCHANGED <<buildVars, pc, packVars, parseVars, labelVars,
                 searchableNodes, searchTerm, results, selectedIndex, timers,
                 lastInput>>

NextDropdown ==
  \/ BuildRows \/ ForEachRow \/ FlattenTree
  \/ TypeText \/ TimerFires \/ KeyDown \/ ClickResultRow \/ ClickClear
  \/ ClickOutside \/ NewSigmaData

SpecDropdown == InitDropdown /\ [][NextDropdown]_vars

(***************************************************************************)
(* The pattern "Name (Code)-Suffix" as the specification words it          *)
(***************************************************************************)
LowerCase ==
  {"a","b","c","d","e","f","g","h","i","j","k","l","m","n","o","p","q","r",
   "s","t","u","v","w","x","y","z"}
AlphaNumeric == UpperOrDigit \cup LowerCase
Parens == {"(", ")"}

HasNone(s, C) == \A k \in 1..Len(s) : s[k] \notin C
AllIn(s, C) == \A k \in 1..Len(s) : s[k] \in C

\* A reading of s as Name ++ "(" ++ Code ++ ")-" ++ Suffix: <<n, j>> with
\* Name = s[1..n] (the blank before "(" included), "(" at n+1 and ")" at j
NameOf(s, d)   == SubStr(s, 1, d[1])
CodeOf(s, d)   == SubStr(s, d[1] + 2, d[2] - 1)
SuffixOf(s, d) == SubStr(s, d[2] + 2, Len(s))

Readings(s) ==
  LET opens  == {n \in 0..(Len(s) - 1) : s[n + 1] = "("}
      closes == {j \in 1..(Len(s) - 2) : s[j] = ")" /\ s[j + 1] = "-"}
  IN {d \in opens \X closes : d[2] > d[1] + 2}

\* Code not empty, Suffix one or more alphanumeric characters
OfTheForm(s, d) ==
  d \in Readings(s) /\ AllIn(SuffixOf(s, d), AlphaNumeric)

\* the plain reading: a name, and no parenthesis inside Name or Code
PlainForm(s, d) ==
  /\ OfTheForm(s, d)
  /\ NameOf(s, d) # <<>>
  /\ HasNone(NameOf(s, d), Parens \cup LineTerminator)
  /\ HasNone(CodeOf(s, d), Parens)

Parsed == pc = "parsed" /\ levelString # NULL

\* C5 as stated: every input of the form Name (Code)-Suffix with an
\* alphanumeric Suffix parses to name = trimmed Name, code = Code,
\* suffix = Suffix.  Fails on a lower-case suffix and on a padded Code.
C5_AsStated ==
  Parsed =>
    \A d \in Readings(levelString) :
      PlainForm(levelString, d) =>
        /\ parsed # <<>>
        /\ parsed[1].name = Trim(NameOf(levelString, d))
        /\ parsed[1].buCode = CodeOf(levelString, d)
        /\ parsed[1].beblCode = SuffixOf(levelString, d)

\* C5 (amended): for every input Name (Code)-Suffix with a non-empty
\* single-line Name, no parenthesis inside Name or Code, and a Suffix of one
\* or more characters of [A-Z0-9], parseLevel does not fall back and returns
\* name = trimmed Name, code = trimmed Code, suffix = Suffix.
C5_ParsesPattern ==
  Parsed =>
    \A d \in Readings(levelString) :
      (PlainForm(levelString, d) /\ AllIn(SuffixOf(levelString, d), UpperOrDigit)) =>
        /\ parsed # <<>>
        /\ parsed[1].name = Trim(NameOf(levelString, d))
        /\ parsed[1].buCode = Trim(CodeOf(levelString, d))
        /\ parsed[1].beblCode = SuffixOf(levelString, d)
        /\ parsed[1].beblCode # <<>>

\* an input of the amended form, with blanks to trim, has been parsed
C5_Witness ==
  /\ Parsed
  /\ \E d \in Readings(levelString) :
       /\ PlainForm(levelString, d)
       /\ AllIn(SuffixOf(levelString, d), UpperOrDigit)
       /\ Trim(NameOf(levelString, d)) # NameOf(levelString, d)
       /\ parsed[1].buCode = CodeOf(levelString, d)

\* C6: parseLevel returns null exactly for an absent or empty input; any
\* other input gives a result whose raw is the input, and an input that is
\* not of the form Name(Code)-Suffix (any Name, non-empty Code, alphanumeric
\* Suffix) gives {name: trimmed input, code: "", suffix: ""}.
C6_NullAndFallback ==
  pc = "parsed" =>
    /\ (parsed = <<>>) <=> (levelString = NULL \/ levelString = <<>>)
    /\ parsed # <<>> =>
         /\ parsed[1].raw = levelString
         /\ (\A d \in Readings(levelString) : ~OfTheForm(levelString, d)) =>
              parsed[1] = [name |-> Trim(levelString), buCode |-> <<>>,
                           beblCode |-> <<>>, raw |-> levelString]

\* "X (X)-" (the suffix characters are missing) took the fallback, and the
\* trimmed name differs from raw for another input
C6_Witness ==
  /\ pc = "parsed"
  /\ levelString = <<"X", " ", "(", "X", ")", "-">>
  /\ parsed = <<[name |-> levelString, buCode |-> <<>>, beblCode |-> <<>>,
                 raw |-> levelString]>>

(***************************************************************************)
(* The rows as the specification describes them                            *)
(***************************************************************************)
NumFields == Len(LevelFields)
Cell(i, k) == sigmaData[i][LevelFields[k]]

\* the effective path of row i: the raw strings of the longest prefix of its
\* level fields in which no field is missing or empty
GapAt(i) ==
  Min({k \in 1..NumFields : Falsy(Cell(i, k))} \cup {NumFields + 1})
EffectivePath(i) == [k \in 1..(GapAt(i) - 1) |-> Cell(i, k)]
Weight(i) == IF sigmaData[i].marketValue = <<>> THEN 0
             ELSE sigmaData[i].marketValue[1]
Descriptive(i) == sigmaData[i].beblFullName

KeyOf(rawPath) == Join(rawPath, <<"|">>)

\* the rows the forEach loop has consumed so far
Consumed == 1..rowIndex
\* transformToHierarchy has returned the root
Built == pc = "done"

\* the rows whose walk passes through / ends on the node with path key
RowsThrough(key) ==
  {i \in Consumed : \E m \in 1..Len(EffectivePath(i)) :
                      KeyOf(SubSeq(EffectivePath(i), 1, m)) = key}
RowsEndingAt(key) ==
  {i \in Consumed : EffectivePath(i) # <<>> /\ KeyOf(EffectivePath(i)) = key}

\* the distinct non-empty prefixes of the effective paths
Prefixes ==
  UNION {{SubSeq(EffectivePath(i), 1, m) : m \in 1..Len(EffectivePath(i))} :
           i \in Consumed}

\* the sum of f[x] over the domain of f
RECURSIVE SumOf(_)
SumOf(f) ==
  IF DOMAIN f = {} THEN 0
  ELSE LET x == CHOOSE y \in DOMAIN f : TRUE IN
       f[x] + SumOf([y \in DOMAIN f \ {x} |-> f[y]])
SumOver(S, F(_)) == SumOf([x \in S |-> F(x)])

Range(seq) == {seq[k] : k \in 1..Len(seq)}
NodeKeys == DOMAIN nodeMap \ {RootKey}
DirectValue(key) == OrZero(nodeMap[key].value)

\* the parent of a node: the node that lists it as a child
ParentOf(key) == CHOOSE p \in DOMAIN nodeMap : key \in Range(nodeMap[p].children)

\* the subtree of a node: the least set that holds the node and the
\* children of its members
RECURSIVE ClosedUnderChildren(_)
ClosedUnderChildren(S) ==
  LET more == S \cup UNION {Range(nodeMap[k].children) : k \in S} IN
  IF more = S THEN S ELSE ClosedUnderChildren(more)
SubtreeOf(top) == ClosedUnderChildren({top})

\* C1: every node's directValue is the sum of the weights (missing = 0) of
\* exactly the rows whose effective path ends on that node, a node no row
\* ends on has no directValue, and the directValues of all nodes add up to
\* the weights of all rows with a non-empty effective path.
C1_DirectValueIsSumOfRows ==
  Built =>
    /\ \A key \in DOMAIN nodeMap :
         LET ending == RowsEndingAt(key) IN
         IF ending = {}
           THEN nodeMap[key].value = <<>>
           ELSE nodeMap[key].value = <<SumOver(ending, Weight)>>
    /\ SumOver(DOMAIN nodeMap, DirectValue)
         = SumOver({i \in Consumed : EffectivePath(i) # <<>>}, Weight)

\* two weighted rows ended on one node, which also has a child
C1_Witness ==
  /\ pc = "done"
  /\ \E key \in NodeKeys :
       /\ Cardinality(RowsEndingAt(key)) = 2
       /\ nodeMap[key].value = <<2>>
       /\ nodeMap[key].children # <<>>

Max(S) == CHOOSE x \in S : \A y \in S : x >= y
Last(seq) == seq[Len(seq)]
Front(seq) == SubSeq(seq, 1, Len(seq) - 1)
RawPath(path) == [k \in 1..Len(path) |-> path[k].raw]

\* row with every level field from position gap on cleared
CutRow(row, gap) ==
  [f \in DOMAIN row |->
     IF \E k \in gap..NumFields : LevelFields[k] = f THEN NULL ELSE row[f]]

\* C3 (gap rule): the path extracted from a row is the longest prefix of its
\* level fields with no missing/empty field; what follows the first gap has
\* no effect on the tree, and a row whose first level is missing/empty
\* leaves the tree exactly as it was.
C3_GapRule ==
  [][(pc = "forEach" /\ rowIndex' = rowIndex + 1) =>
       LET i == rowIndex + 1 IN
       /\ RawPath(ExtractPath(rows[i])) = EffectivePath(i)
       /\ nodeMap' = ProcessRow(nodeMap, beblFullNameMap,
                                CutRow(rows[i], GapAt(i)))
       /\ Falsy(Cell(i, 1)) => nodeMap' = nodeMap]_vars

\* consumed: a row that made a node, then a row with a gap first and a
\* level after it, which made none
C3_Witness ==
  /\ pc = "done" /\ rowIndex = 2
  /\ Cell(1, 1) # NULL /\ Cell(1, 2) = <<>>
  /\ Cell(2, 1) = NULL /\ Cell(2, 2) # <<>>
  /\ Cardinality(NodeKeys) = 1

\* the correspondence prefix |-> node with the prefix's path key is one to
\* one and onto the non-root nodes and keeps label, depth and parent; every
\* non-root node is listed once, by exactly one parent
PrefixesAreNodes ==
  /\ Cardinality(Prefixes) = Cardinality(NodeKeys)
  /\ \A pre \in Prefixes :
       /\ KeyOf(pre) \in NodeKeys
       /\ nodeMap[KeyOf(pre)].rawLabel = Last(pre)
       /\ nodeMap[KeyOf(pre)].level = Len(pre) - 1
       /\ ParentOf(KeyOf(pre)) = KeyOf(Front(pre))
  /\ \A key \in NodeKeys :
       Cardinality({<<par, k>> \in
           UNION {{par} \X (1..Len(nodeMap[par].children)) :
                    par \in DOMAIN nodeMap} :
           nodeMap[par].children[k] = key}) = 1

NoDelimiterInLevels ==
  \A i \in Consumed : \A k \in 1..NumFields :
    Cell(i, k) = NULL \/ HasNone(Cell(i, k), {"|"})

NamedRowsThrough(key) ==
  {i \in 1..Len(sigmaData) :
     /\ ~Falsy(Descriptive(i))
     /\ \E m \in 1..Len(EffectivePath(i)) :
          KeyOf(SubSeq(EffectivePath(i), 1, m)) = key}

C8_ChildrenInFirstSeenOrder ==
  Built =>
    \A par \in DOMAIN nodeMap :
      LET children == nodeMap[par].children
          first == [p \in 1..Len(children) |-> Min(RowsThrough(children[p]))]
      IN \A p, q \in 1..Len(children) : p < q <=> first[p] < first[q]

\* a parent has two children; a later row passed through the first child
\* again and the order stayed
C8_Witness ==
  /\ pc = "done"
  /\ \E par \in DOMAIN nodeMap :
       /\ Len(nodeMap[par].children) = 2
       /\ Cardinality(RowsThrough(nodeMap[par].children[2])) = 1
       /\ Max(RowsThrough(nodeMap[par].children[1]))
            > Min(RowsThrough(nodeMap[par].children[2]))

(***************************************************************************)
(* Label selection                                                         *)
(***************************************************************************)
Shown == Range(labelsToShow)

\* distance(centers) >= r_a + r_b - allowance
Separated(a, b) ==
  LET need == nodes[a].r + nodes[b].r - OverlapAllowance
      dx == nodes[a].x - nodes[b].x
      dy == nodes[a].y - nodes[b].y
  IN need <= 0 \/ dx * dx + dy * dy >= need * need

\* C9: no two labels of the output violate the minimum separation:
\* distance(center_a, center_b) >= r_a + r_b - 10 for every two of them.
C9_LabelsKeepSeparation ==
  pc = "rendered" =>
    \A p, q \in 1..Len(labelsToShow) :
      p # q => Separated(labelsToShow[p], labelsToShow[q])

\* three candidates, two shown and one skipped for being too close
C9_Witness ==
  /\ pc = "rendered"
  /\ Len(nodes) = 3 /\ \A k \in 1..3 : IsCandidate(nodes[k])
  /\ Len(labelsToShow) = 2

\* a is visited before b: larger radius first, equal radii in node order
VisitedBefore(a, b) ==
  nodes[a].r > nodes[b].r \/ (nodes[a].r = nodes[b].r /\ a < b)

FloorOfRadius(r) == CHOOSE n \in 0..r : 7 * n <= 2 * r /\ 7 * (n + 1) > 2 * r

\* C11: for every selected label, displayText is the node's name when the
\* name has at most floor(radius / 3.5) characters; otherwise it is a proper
\* prefix of the name followed by "...", and in both cases displayText has
\* no more than floor(radius / 3.5) characters.
C11_DisplayTextFits ==
  pc = "rendered" =>
    /\ Len(displayNames) = Len(labelsToShow)
    /\ \A k \in 1..Len(labelsToShow) :
         LET name  == nodes[labelsToShow[k]].name
             limit == FloorOfRadius(nodes[labelsToShow[k]].r)
             text  == displayNames[k]
         IN /\ Len(name) <= limit => text = name
            /\ Len(name) > limit =>
                 \E m \in 0..(Len(name) - 1) :
                   text = SubSeq(name, 1, m) \o <<".", ".", ".">>
            /\ Len(text) <= limit

\* two labels: one whose name fits exactly and one cut to fit
C11_Witness ==
  /\ pc = "rendered" /\ Len(labelsToShow) = 2
  /\ displayNames[1] = nodes[labelsToShow[1]].name
  /\ Len(displayNames[1]) = FloorOfRadius(nodes[labelsToShow[1]].r)
  /\ displayNames[2] # nodes[labelsToShow[2]].name
  /\ Len(displayNames[2]) = FloorOfRadius(nodes[labelsToShow[2]].r)

(***************************************************************************)
(* Search                                                                  *)
(***************************************************************************)
SearchFields == {"name", "buCode", "beblCode", "beblFullName", "rawLabel"}

\* q occurs in s as a run of consecutive characters
Substring(q, s) ==
  \E i \in 0..(Len(s) - Len(q)) : \A k \in 1..Len(q) : s[i + k] = q[k]

\* the positions of the records that hold the lower-cased query in the
\* lower-cased text of one of the five fields (an absent field holds nothing)
MatchingRecords ==
  {i \in 1..Len(searchableNodes) :
     \E f \in SearchFields :
       /\ searchableNodes[i][f] # NULL
       /\ Substring(ToLowerCase(searchTerm),
                    ToLowerCase(searchableNodes[i][f]))}

\* C12: for a non-blank query the result is exactly the first 50 records,
\* in their original relative order, for which the lower-cased query is a
\* substring of the lower-cased name, code, suffix, descriptiveName or
\* rawLabel; nothing else is returned and none of them is left out.
C12_SearchIsFirstMatches ==
  (pc = "searched" /\ Trim(searchTerm) # <<>>) =>
    LET matching == MatchingRecords
        firstOnes == {i \in matching :
                        Cardinality({j \in matching : j < i}) < SearchLimit}
    IN /\ Len(results) = Cardinality(firstOnes)
       /\ \A i \in firstOnes :
            results[Cardinality({j \in firstOnes : j <= i})]
              = searchableNodes[i]

\* a query in capitals with more than 50 matching records among records
\* that do not match: 50 results, the first record left out
C12_Witness ==
  /\ pc = "searched"
  /\ searchTerm = <<"A">>
  /\ Cardinality(MatchingRecords) > SearchLimit
  /\ 1 \notin MatchingRecords
  /\ Len(results) = SearchLimit

(***************************************************************************)
(* The search index                                                        *)
(***************************************************************************)
Flattened == pc = "flat" /\ nodeMap # <<>>
RecordPaths == {searchableNodes[p].path : p \in 1..Len(searchableNodes)}
PositionOf(key) ==
  CHOOSE p \in 1..Len(searchableNodes) : searchableNodes[p].path = key

\* C13: flatten gives exactly one record per non-root node and none for the
\* root, in recursive pre-order (a node before its descendants, siblings in
\* child order, a subtree before the next sibling), each record copying
\* name, code, suffix, descriptiveName, rawLabel, pathKey and depth.
C13_FlattenIsPreOrder ==
  Flattened =>
    /\ Len(searchableNodes) = Cardinality(NodeKeys)
    /\ RecordPaths = NodeKeys
    /\ \A key \in NodeKeys :
         LET node == nodeMap[key]
             rec  == searchableNodes[PositionOf(key)]
         IN /\ rec.name = node.name /\ rec.buCode = node.buCode
            /\ rec.beblCode = node.beblCode
            /\ rec.beblFullName = node.beblFullName
            /\ rec.rawLabel = node.rawLabel
            /\ rec.path = node.path /\ rec.level = node.level
            /\ \A d \in SubtreeOf(key) \ {key} :
                 PositionOf(key) < PositionOf(d)
    /\ \A par \in DOMAIN nodeMap :
         \A i, j \in 1..Len(nodeMap[par].children) :
           i < j =>
             \A d \in SubtreeOf(nodeMap[par].children[i]) :
               PositionOf(d) < PositionOf(nodeMap[par].children[j])

\* a first-level node with a child, followed by its sibling
C13_Witness ==
  /\ Flattened
  /\ Len(searchableNodes) = 3
  /\ searchableNodes[1].level = 0 /\ searchableNodes[1].beblFullName # NULL
  /\ searchableNodes[2].level = 1
  /\ searchableNodes[3].level = 0

\* C14 as stated: every record carries the node's aggregateWeight, the sum
\* of directValue over the node's whole subtree, also for nodes that have
\* children.  The record holds node.value || 0, the directValue alone.
C14_RecordCarriesAggregate ==
  Flattened =>
    \A p \in 1..Len(searchableNodes) :
      searchableNodes[p].value
        = SumOver(SubtreeOf(searchableNodes[p].path), DirectValue)

(***************************************************************************)
(* Focus                                                                   *)
(***************************************************************************)
\* the result names no node of the tree, or a node without children
NoFocusTarget(result) ==
  \/ \A key \in DOMAIN nodeMap : nodeMap[key].path # result.path
  \/ \E key \in DOMAIN nodeMap :
       nodeMap[key].path = result.path /\ nodeMap[key].children = <<>>

\* C15: selecting a search result whose path is not found in the current
\* tree, or whose node has no children, leaves focusedPath and breadcrumbs
\* exactly as they were.
C15_SelectionWithoutTargetKeepsFocus ==
  [][\A result \in Range(searchableNodes) \cup {StaleResult} :
       (SelectResult(result) /\ NoFocusTarget(result)) =>
         (focusedPath' = focusedPath /\ breadcrumbs' = breadcrumbs)]_vars

\* with a focus two levels deep, a third-level (childless) result or the
\* stale result has been selected: the search text is its name
C15_Witness ==
  /\ Viewing
  /\ searchTerm \in {<<"c">>, <<"z">>}
  /\ focusedPath # NULL /\ Len(breadcrumbs) = 2

\* C16: changing the focus and computing layouts never modify the tree:
\* after any sequence of clicks, selections, breadcrumb clicks, resets,
\* clears and layouts, the nodes (name, pathKey, depth, directValue,
\* ordered children) are those transformToHierarchy produced.
C16_TreeIsNeverModified ==
  Viewing => nodeMap = TransformToHierarchy(rows, beblFullNameMap)

\* a layout reordered the children of the root, and the focus moved since
C16_Witness ==
  /\ Viewing
  /\ RootKey \in DOMAIN packChildren
  /\ packChildren[RootKey] # nodeMap[RootKey].children
  /\ focusedPath # NULL /\ breadcrumbs # <<>> /\ searchTerm # <<>>

(***************************************************************************)
(* Layout order                                                            *)
(***************************************************************************)
\* the position of a child in the children the tree was built with
BuildPosition(par, key) ==
  CHOOSE p \in 1..Len(nodeMap[par].children) : nodeMap[par].children[p] = key

\* C20: at layout time the children of every node are in descending
\* aggregateWeight order, children of equal aggregateWeight keeping their
\* build-time insertion order; the order is a function of the tree alone.
C20_ChildrenByWeightStable ==
  pc = "packed" =>
    /\ DOMAIN packChildren = DOMAIN packValue
    /\ \A par \in DOMAIN packChildren :
         LET sorted == packChildren[par]
             weight == [k \in Range(sorted) |->
                          SumOver(SubtreeOf(k), DirectValue)]
         IN /\ Len(sorted) = Len(nodeMap[par].children)
            /\ Range(sorted) = Range(nodeMap[par].children)
            /\ \A p, q \in 1..Len(sorted) :
                 p < q =>
                   \/ weight[sorted[p]] > weight[sorted[q]]
                   \/ /\ weight[sorted[p]] = weight[sorted[q]]
                      /\ BuildPosition(par, sorted[p])
                           < BuildPosition(par, sorted[q])

\* the root has three children: the heaviest, built last, comes first and
\* the two of equal weight keep their build order
C20_Witness ==
  /\ pc = "packed"
  /\ RootKey \in DOMAIN packChildren
  /\ Len(packChildren[RootKey]) = 3
  /\ packChildren[RootKey][1] = nodeMap[RootKey].children[3]
  /\ packChildren[RootKey][2] = nodeMap[RootKey].children[1]
  /\ packValue[packChildren[RootKey][2]] = packValue[packChildren[RootKey][3]]

(***************************************************************************)
(* The value of a node and the values of its children                      *)
(***************************************************************************)
Packed == pc = "packed"
ValueOfChildren(key) ==
  SumOf([k \in 1..Len(nodeMap[key].children) |->
           packValue[nodeMap[key].children[k]]])
Parents == {k \in DOMAIN packValue : nodeMap[k].children # <<>>}

ParentPaths ==
  {nodeMap[key].path : key \in {k \in NodeKeys : nodeMap[k].children # <<>>}}
Childless(path) ==
  \E key \in DOMAIN nodeMap :
    nodeMap[key].path = path /\ nodeMap[key].children = <<>>

\* C22: for a fixed tree, after every click, selection, breadcrumb click,
\* reset and clear the focus is the root (focusedPath = null) or a node of
\* the tree with at least one child, and a click or a selection on a
\* childless node leaves the focus as it was
C22_FocusIsRootOrParent ==
  [][/\ Viewing' => (focusedPath' = NULL \/ focusedPath' \in ParentPaths')
     /\ \A d \in DOMAIN packValue :
          (Viewing /\ Rendered /\ ClickHandler(d)
             /\ nodeMap[d].children = <<>>)
            => focusedPath' = focusedPath
     /\ \A result \in Range(searchableNodes) :
          (SelectResult(result) /\ Childless(result.path))
            => focusedPath' = focusedPath]_vars

\* the focus is a second-level node, its childless child is on screen and
\* was the last result selected
C22_Witness ==
  /\ Viewing /\ Rendered
  /\ focusedPath \in ParentPaths /\ Len(breadcrumbs) = 2
  /\ \E d \in DOMAIN packValue :
       nodeMap[d].children = <<>> /\ searchTerm = nodeMap[d].name

(***************************************************************************)
(* The focus when the rows are replaced                                    *)
(***************************************************************************)
\* the key of the node whose circle is the outermost of the layout
LaidOutNode == FocusedNode(nodeMap, focusedPath)

\* C25: in every state in which the visualization is shown, also after the
\* rows were replaced and the tree built again, a focusedPath that is not
\* null is the path of a node of the current tree with at least one child,
\* the node laid out is that node, and every breadcrumb is a node of the
\* current tree
C25_FocusStaysValid ==
  (Viewing /\ Rendered) =>
    /\ focusedPath # NULL =>
         /\ focusedPath \in ParentPaths
         /\ nodeMap[LaidOutNode].path = focusedPath
    /\ \A i \in 1..Len(breadcrumbs) : breadcrumbs[i] \in DOMAIN nodeMap

(***************************************************************************)
(* The breadcrumb trail                                                    *)
(***************************************************************************)
\* the trail lists the nodes on the way from a child of the root down to
\* the node whose path is focusedPath
TrailLeadsToFocus ==
  /\ \A i \in 1..Len(breadcrumbs) :
       /\ breadcrumbs[i] \in NodeKeys
       /\ nodeMap[breadcrumbs[i]].level = i - 1
       /\ breadcrumbs[i] \in
            Range(nodeMap[IF i = 1 THEN RootKey
                          ELSE breadcrumbs[i - 1]].children)
  /\ breadcrumbs # <<>>
  /\ nodeMap[Last(breadcrumbs)].path = focusedPath

\* C23: in every state in which the visualization is shown the breadcrumb
\* trail is the path from the root to the focused node: empty iff focusedPath
\* is null, otherwise the ancestors of the focused node other than the root,
\* from depth 0 downward, followed by the focused node (breadcrumbs[i] has
\* depth i, counted from 0, and the last has the path focusedPath)
C23_TrailIsPathToFocus ==
  Viewing =>
    IF focusedPath = NULL THEN breadcrumbs = <<>> ELSE TrailLeadsToFocus

\* C30: for a fixed tree, a click on breadcrumb i (counted from 0) of the
\* trail sets focusedPath to the path of that node and makes the trail its
\* first i + 1 elements, so that a click on the last breadcrumb changes
\* neither; Reset and the clearing of the search give focusedPath = null
\* and the empty trail
C30_BreadcrumbNavigation ==
  [][/\ \A i \in 1..Len(breadcrumbs) :
          (Viewing /\ HandleNodeClick(breadcrumbs[i])) =>
            /\ focusedPath' = nodeMap[breadcrumbs[i]].path
            /\ breadcrumbs' = SubSeq(breadcrumbs, 1, i)
            /\ i = Len(breadcrumbs) =>
                 (focusedPath' = focusedPath /\ breadcrumbs' = breadcrumbs)
     /\ (ClearSearch \/ Reset) =>
          (focusedPath' = NULL /\ breadcrumbs' = <<>>)]_vars

\* no search text, the layout on screen is the one of a second-level node
\* and the focus is its parent: the first of two breadcrumbs was clicked
C30_Witness ==
  /\ Viewing /\ searchTerm = <<>>
  /\ \E key \in NodeKeys :
       /\ nodeMap[key].level = 1
       /\ packValue = HierarchyValues(nodeMap, nodeMap[key].path)
       /\ focusedPath = nodeMap[ParentOf(key)].path
       /\ breadcrumbs = <<ParentOf(key)>>

(***************************************************************************)
(* SearchFilter: the debounce timer and the dropdown                       *)
(***************************************************************************)
\* what a search for the text the component holds gives
CurrentMatches ==
  IF Trim(searchTerm) # <<>>
    THEN Slice0(SearchNodes(searchTerm, searchableNodes), SearchLimit)
    ELSE <<>>

\* C24: every change of the search text or of the list of searchable records
\* cancels the pending timer and starts a new one, so that after every step
\* at most one timer is pending and every pending timer is the one of the
\* current text and list (a timer of an older text never fires); when a
\* timer fires, results become the first 50 matches of the current text, or
\* empty with the dropdown closed when the text is blank
C24_DebouncedSearch ==
  [][/\ Len(timers') <= 1
     /\ \A k \in 1..Len(timers') :
          /\ timers'[k].term = searchTerm'
          /\ timers'[k].list = searchableNodes'
     /\ (Viewing' /\ (searchTerm' # searchTerm
                        \/ searchableNodes' # searchableNodes))
          => Len(timers') = 1
     /\ TimerFires =>
          /\ results' = CurrentMatches
          /\ Trim(searchTerm) = <<>> => ~isOpen']_vars

\* results of an earlier text are on screen, the text has changed since and
\* one timer is pending, for the new text
C24_Witness ==
  /\ Viewing /\ isOpen /\ results # <<>>
  /\ searchTerm = <<"z">>
  /\ Len(timers) = 1 /\ timers[1].term = searchTerm

\* the state in which the panel "No results found" is rendered
NoResultsPanel == isOpen /\ searchTerm # <<>> /\ results = <<>>

\* C26: under typing, timers firing, key presses, selections, clears and
\* clicks outside, the result list is not empty whenever the dropdown is
\* open, so that the state in which "No results found" is rendered (open,
\* text not empty, no results) is never reached
C26_OpenMeansResults ==
  /\ isOpen => results # <<>>
  /\ ~NoResultsPanel

\* the timer of a text that no record matches has fired: there are no
\* results and the dropdown is closed
C26_Witness ==
  /\ Viewing /\ searchableNodes # <<>>
  /\ searchTerm = <<"z">> /\ lastInput = "typed" /\ timers = <<>>
  /\ results = <<>> /\ ~isOpen

\* C27: after every step of typing, key presses, timers firing and changes
\* of the list of searchable records, 0 <= selectedIndex < results.length
\* whenever the dropdown is open; so Enter, pressed while the dropdown is
\* open, selects one of the results
C27_SelectedIndexInRange ==
  [][/\ isOpen' => (0 <= selectedIndex' /\ selectedIndex' < Len(results'))
     /\ (Viewing /\ isOpen /\ HandleKeyDown("Enter")) =>
          /\ selectedIndex + 1 \in DOMAIN results
          /\ lastInput' = "selected"
          /\ searchTerm' = results[selectedIndex + 1].name]_vars

\* ArrowDown has moved the selection to the last of several results
C27_Witness ==
  /\ isOpen /\ Len(results) >= 2
  /\ selectedIndex = Len(results) - 1

\* C28: after the user has selected a search result the dropdown is closed,
\* and it stays closed until the user edits the search text again: no
\* timer that fires opens it
C28_StaysClosedAfterSelection == lastInput = "selected" => ~isOpen

(***************************************************************************)
(* Labels of nested circles                                                *)
(***************************************************************************)
\* the ancestors of node k in the layout, the focused node included
RECURSIVE AncestorsOf(_)
AncestorsOf(k) ==
  IF nodes[k].parent = 0 THEN {}
  ELSE {nodes[k].parent} \cup AncestorsOf(nodes[k].parent)

\* C29: in a layout in which every child circle lies within the circle of
\* its parent, no two labelled nodes are ancestor and descendant: of a
\* labelled node no ancestor below the focus and no descendant is labelled
C29_NoLabelUnderALabel ==
  pc = "rendered" =>
    \A a \in Shown : \A b \in Shown : b \notin AncestorsOf(a)

\* a labelled node whose parent is a candidate that was skipped, for being
\* too close to a larger circle that is labelled
C29_Witness ==
  /\ pc = "rendered"
  /\ Len(labelsToShow) = 2
  /\ \E c \in Shown :
       /\ nodes[c].parent > 1
       /\ IsCandidate(nodes[nodes[c].parent])
       /\ nodes[c].parent \notin Shown

=============================================================================
